---- MODULE Spec2Model ----
(***************************************************************************)
(* Model of the third-party summary audit of the Network plugin            *)
(* (src/audits/network.js): getSummaries, makeSubItems and audit.          *)
(*                                                                         *)
(* Numbers: transfer sizes and task times are integers here (bytes, ms);   *)
(* JavaScript's doubles add these values exactly as long as they stay      *)
(* integral, so nothing about floating-point rounding of fractional task   *)
(* times is modelled.                                                      *)
(*                                                                         *)
(* URLs: a URL string is represented by the components the WHATWG parser   *)
(* would read from it, [scheme, host, path].  A string with no scheme      *)
(* (the 'Unattributable' marker the task attribution falls back to) does   *)
(* not parse.                                                              *)
(*                                                                         *)
(* byURL: getSummaries never declares byURL (lines 40, 50, 54, 57, 70 use  *)
(* a free identifier).  The identifier resolves in the global scope, which *)
(* the module does not own: either no binding exists and any evaluation of *)
(* byURL throws a ReferenceError, or the host process has installed a Map  *)
(* under that name, and that one Map is then shared by every call.         *)
(***************************************************************************)
EXTENDS Integers, Sequences, FiniteSets, TLC

VARIABLES
    byURLBound,   \* whether the global scope has a binding for byURL
    byURL,        \* the Map bound to the global byURL (insertion-ordered entries)
    processed,    \* records and tasks handed to the module so far
    callName,     \* the static method the last call entered
    args,         \* the arguments of the last call
    outcome,      \* how the last call ended
    summaries,    \* what getSummaries returned in the last call
    verdict       \* what audit returned in the last call

vars == <<byURLBound, byURL, processed, callName, args, outcome, summaries, verdict>>

----------------------------------------------------------------------------
(* Program constants *)

PASS_THRESHOLD_IN_MS == 250
MIN_TRANSFER_SIZE_FOR_SUBITEMS == 4096
MAX_SUBITEMS == 100
BLOCKING_ALLOWANCE_MS == 50
MIN_SHARE_DIVISOR == 20

(* Bounds of the model *)

MaxItems == 3      \* records plus tasks handed to the module in one behaviour
MaxSmallURLs == 3  \* third-party URLs of a small page, every combination tried
MaxURLs == 101     \* third-party URLs of a large page
MaxLead == 1       \* URLs of a large page that differ from the rest

----------------------------------------------------------------------------
(* Numbers and sequences *)

\* TRUE, once v has been computed: the loops below use it to finish one
\* iteration before the next starts.
Done(v) == v = v

Max(a, b) == IF a >= b THEN a ELSE b
Min(a, b) == IF a <= b THEN a ELSE b

----------------------------------------------------------------------------
(* URLs *)

Url(scheme, host, path) == [scheme |-> scheme, host |-> host, path |-> path]

AX == Url("https", "a.com", 1)             \* https://a.com/1.js
BZ == Url("https", "b.com", 1)             \* https://b.com/1.js
DT == Url("data", "text/plain,x", 1)       \* data:text/plain,x
PAGE_A == Url("https", "a.com", 0)         \* https://a.com/
PAGE_DATA == Url("data", "text/html,x", 0) \* data:text/html,x
Cdn(i) == Url("https", "cdn.test", i)      \* https://cdn.test/<i>.js
NoUrl == Url("", "", 0)
Unattributable == Url("", "Unattributable", 0)   \* no scheme: not a URL
otherResourcesLabel == Url("", "Other resources", 0)

\* new URL(u): throws a TypeError unless the string has a scheme.
URLValid(u) == u.scheme # ""

\* new URL(u).host: only the hierarchical schemes have a host; for the
\* others (data:, blob:, about:) it is the empty string.
URLHost(u) == IF u.scheme \in {"https", "http"} THEN u.host ELSE ""

----------------------------------------------------------------------------
(* JavaScript Map: entries in insertion order *)

EmptyMap == <<>>

MapHas(m, k) == \E i \in 1..Len(m) : m[i].key = k

MapIndex(m, k) == CHOOSE i \in 1..Len(m) : m[i].key = k

MapGet(m, k) == m[MapIndex(m, k)].value

\* Map.prototype.set: an existing key keeps its position.
MapSet(m, k, v) ==
    IF MapHas(m, k)
    THEN [m EXCEPT ![MapIndex(m, k)] = [key |-> k, value |-> v]]
    ELSE Append(m, [key |-> k, value |-> v])

MapKeys(m) == {m[i].key : i \in 1..Len(m)}

----------------------------------------------------------------------------
(* getSummaries *)

defaultSummary == [mainThreadTime |-> 0, blockingTime |-> 0, transferSize |-> 0]

GetOrDefault(m, k) == IF MapHas(m, k) THEN MapGet(m, k) ELSE defaultSummary

\* Lines 39-43: one network record folded into byURL.
AddRequest(m, request) ==
    LET urlSummary == GetOrDefault(m, request.url)
    IN  MapSet(m, request.url,
               [urlSummary EXCEPT !.transferSize = @ + request.transferSize])

\* The loop of lines 39-43 over networkRecords[lo..hi], in order (the range
\* is split in two only to keep the evaluation shallow).
RECURSIVE AddRequests(_, _, _, _)
AddRequests(m, networkRecords, lo, hi) ==
    IF lo > hi THEN m
    ELSE IF lo = hi THEN AddRequest(m, networkRecords[lo])
    ELSE LET mid == (lo + hi) \div 2
             half == AddRequests(m, networkRecords, lo, mid)
         IN  IF Done(half) THEN AddRequests(half, networkRecords, mid + 1, hi) ELSE half

\* Lines 47-55: one task folded into byURL under its attributable URL.
AddTask(m, task, cpuMultiplier) ==
    LET urlSummary == GetOrDefault(m, task.url)
        taskDuration == task.selfTime * cpuMultiplier
    IN  MapSet(m, task.url,
               [urlSummary EXCEPT
                   !.mainThreadTime = @ + taskDuration,
                   !.blockingTime = @ + Max(taskDuration - BLOCKING_ALLOWANCE_MS, 0)])

\* The loop of lines 47-55 over mainThreadTasks[lo..hi], in order.
RECURSIVE AddTasks(_, _, _, _, _)
AddTasks(m, mainThreadTasks, cpuMultiplier, lo, hi) ==
    IF lo > hi THEN m
    ELSE IF lo = hi THEN AddTask(m, mainThreadTasks[lo], cpuMultiplier)
    ELSE LET mid == (lo + hi) \div 2
             half == AddTasks(m, mainThreadTasks, cpuMultiplier, lo, mid)
         IN  IF Done(half)
             THEN AddTasks(half, mainThreadTasks, cpuMultiplier, mid + 1, hi)
             ELSE half

\* Lines 58-63: one byURL entry folded into its entity's summary.
AddToEntity(byEntity, entry) ==
    LET entity == URLHost(entry.key)
        entitySummary == GetOrDefault(byEntity, entity)
    IN  MapSet(byEntity, entity,
               [transferSize |-> entitySummary.transferSize + entry.value.transferSize,
                mainThreadTime |-> entitySummary.mainThreadTime + entry.value.mainThreadTime,
                blockingTime |-> entitySummary.blockingTime + entry.value.blockingTime])

\* Lines 65-67: the URL appended to its entity's list.
AddToUrls(urls, entry) ==
    LET entity == URLHost(entry.key)
        entityURLs == IF MapHas(urls, entity) THEN MapGet(urls, entity) ELSE <<>>
    IN  MapSet(urls, entity, Append(entityURLs, entry.key))

\* The loop of lines 57-68 over the entries lo..hi of byURL, in order.
RECURSIVE FoldEntities(_, _, _, _)
FoldEntities(acc, entries, lo, hi) ==
    IF lo > hi THEN acc
    ELSE IF lo = hi
         THEN [byEntity |-> AddToEntity(acc.byEntity, entries[lo]),
               urls |-> AddToUrls(acc.urls, entries[lo])]
    ELSE LET mid == (lo + hi) \div 2
             half == FoldEntities(acc, entries, lo, mid)
         IN  IF Done(half) THEN FoldEntities(half, entries, mid + 1, hi) ELSE half

NoSummaries == [byURL |-> EmptyMap, byEntity |-> EmptyMap, urls |-> EmptyMap]

\* The whole of getSummaries on the global byURL: how it ends, the Map it
\* leaves bound to byURL, and what it returns.
GetSummaries(bound, global, networkRecords, mainThreadTasks, cpuMultiplier) ==
    IF ~bound
    THEN [outcome |-> "ReferenceError", byURL |-> global, summaries |-> NoSummaries]
    ELSE LET requested == AddRequests(global, networkRecords, 1, Len(networkRecords))
             filled == AddTasks(requested, mainThreadTasks, cpuMultiplier,
                                1, Len(mainThreadTasks))
         IN  IF \E i \in 1..Len(filled) : ~URLValid(filled[i].key)
             THEN [outcome |-> "TypeError", byURL |-> filled, summaries |-> NoSummaries]
             ELSE LET folded == FoldEntities([byEntity |-> EmptyMap, urls |-> EmptyMap],
                                             filled, 1, Len(filled))
                  IN  [outcome |-> "return", byURL |-> filled,
                       summaries |-> [byURL |-> filled,
                                      byEntity |-> folded.byEntity,
                                      urls |-> folded.urls]]

----------------------------------------------------------------------------
(* makeSubItems *)

\* Line 77: the comparator of the sort of an entity's URLs.
compareItems(a, b) ==
    IF b.blockingTime - a.blockingTime # 0
    THEN b.blockingTime - a.blockingTime
    ELSE b.transferSize - a.transferSize

\* Line 77, Array.prototype.sort: stable, by the sign of the comparator.
\* Element i goes to the place after all the elements that sort before it.
SortItems(s) ==
    LET n == Len(s)
        Before(j, i) == \/ compareItems(s[j], s[i]) < 0
                        \/ compareItems(s[j], s[i]) = 0 /\ j < i
        rank == <<>> \o [i \in 1..n |-> Cardinality({j \in 1..n : Before(j, i)}) + 1]
    IN  <<>> \o [k \in 1..n |-> s[CHOOSE i \in 1..n : rank[i] = k]]

\* Lines 73-77: the entity's URLs joined to their summaries, the ones with
\* no bytes dropped, sorted.
SubItemCandidates(entity, sums) ==
    LET entityURLs == IF MapHas(sums.urls, entity) THEN MapGet(sums.urls, entity) ELSE <<>>
        joined == [i \in 1..Len(entityURLs) |->
                      LET s == MapGet(sums.byURL, entityURLs[i])
                      IN  [url |-> entityURLs[i],
                           mainThreadTime |-> s.mainThreadTime,
                           blockingTime |-> s.blockingTime,
                           transferSize |-> s.transferSize]]
        IsKept(stat) == stat.transferSize > 0
    IN  SortItems(SelectSeq(joined, IsKept))

\* Line 80, times MIN_SHARE_DIVISOR so that it stays an integer:
\* x < minTransferSize  iff  MIN_SHARE_DIVISOR * x < minTransferSizeScaled.
minTransferSizeScaled(stats) ==
    Max(MIN_SHARE_DIVISOR * MIN_TRANSFER_SIZE_FOR_SUBITEMS, stats.transferSize)

\* StopsWalk with "or" for "and": an item with blocking time but few bytes
\* ends the walk.
StopsWalkEither(nextSubItem, stats) ==
    \/ nextSubItem.blockingTime = 0
    \/ MIN_SHARE_DIVISOR * nextSubItem.transferSize < minTransferSizeScaled(stats)

\* Line 85: the test that ends the walk.
StopsWalk(nextSubItem, stats) ==
    /\ nextSubItem.blockingTime = 0
    /\ MIN_SHARE_DIVISOR * nextSubItem.transferSize < minTransferSizeScaled(stats)

\* WalkSubItems without line 90: the bytes of the items taken are not added up.
RECURSIVE WalkSubItemsNoBytes(_, _, _, _, _)
WalkSubItemsNoBytes(items, stats, walk, lo, hi) ==
    IF walk.stopped \/ lo > hi THEN walk
    ELSE IF lo = hi
         THEN IF StopsWalk(items[lo], stats)
              THEN [walk EXCEPT !.stopped = TRUE]
              ELSE [walk EXCEPT !.numSubItems = @ + 1,
                                !.blockingTime = @ + items[lo].blockingTime]
    ELSE LET mid == (lo + hi) \div 2
             half == WalkSubItemsNoBytes(items, stats, walk, lo, mid)
         IN  IF Done(half) THEN WalkSubItemsNoBytes(items, stats, half, mid + 1, hi) ELSE half

\* Lines 83-92: the walk over items[lo..hi], in order; stopped is the break
\* of line 86, after which nothing more is taken.
RECURSIVE WalkSubItems(_, _, _, _, _)
WalkSubItems(items, stats, walk, lo, hi) ==
    IF walk.stopped \/ lo > hi THEN walk
    ELSE IF lo = hi
         THEN IF StopsWalk(items[lo], stats)
              THEN [walk EXCEPT !.stopped = TRUE]
              ELSE [walk EXCEPT !.numSubItems = @ + 1,
                                !.transferSize = @ + items[lo].transferSize,
                                !.blockingTime = @ + items[lo].blockingTime]
    ELSE LET mid == (lo + hi) \div 2
             half == WalkSubItems(items, stats, walk, lo, mid)
         IN  IF Done(half) THEN WalkSubItems(items, stats, half, mid + 1, hi) ELSE half

\* MaxSubItemsOf without the cap.
AllItems(items) == Len(items)

\* Line 81: how many items the walk may take.
MaxSubItemsOf(items) == Min(MAX_SUBITEMS, Len(items))

\* RemainderShown without the test: the remainder is always appended.
RemainderShownAlways(remainder, stats) == TRUE

\* Line 102: whether the remainder is appended.
RemainderShown(remainder, stats) ==
    MIN_SHARE_DIVISOR * remainder.transferSize > minTransferSizeScaled(stats)

makeSubItems(entity, sums, stats) ==
    LET items == SubItemCandidates(entity, sums)
        maxSubItems == MaxSubItemsOf(items)
        subitemSummary == WalkSubItems(items, stats,
                              [numSubItems |-> 0, transferSize |-> 0, blockingTime |-> 0,
                               stopped |-> FALSE],
                              1, maxSubItems)
        remainder == [url |-> otherResourcesLabel,
                      transferSize |-> stats.transferSize - subitemSummary.transferSize,
                      blockingTime |-> stats.blockingTime - subitemSummary.blockingTime]
        shown == SubSeq(items, 1, subitemSummary.numSubItems)
    IN  IF subitemSummary.blockingTime = 0 /\ subitemSummary.transferSize = 0
        THEN <<>>
        ELSE IF RemainderShown(remainder, stats)
             THEN Append(shown, remainder)
             ELSE shown

----------------------------------------------------------------------------
(* audit *)

\* compareRows without the tie-break on bytes.
compareRowsNoTie(a, b) == b.blockingTime - a.blockingTime

\* Line 140: the comparator of the sort of the rows.
compareRows(a, b) ==
    IF b.blockingTime - a.blockingTime # 0
    THEN b.blockingTime - a.blockingTime
    ELSE b.transferSize - a.transferSize

\* Line 140, Array.prototype.sort: stable, by the sign of the comparator.
SortRows(s) ==
    LET n == Len(s)
        Before(j, i) == \/ compareRows(s[j], s[i]) < 0
                        \/ compareRows(s[j], s[i]) = 0 /\ j < i
        rank == <<>> \o [i \in 1..n |-> Cardinality({j \in 1..n : Before(j, i)}) + 1]
    IN  <<>> \o [k \in 1..n |-> s[CHOOSE i \in 1..n : rank[i] = k]]

\* IsReported without the filter: every entity is reported.
IsReportedAll(mainEntity, entity) == TRUE

\* Line 122: the filter that drops the page's own entity.
IsReported(mainEntity, entity) == ~(mainEntity # "" /\ mainEntity = entity)

\* Lines 127-138: the row of one entity.
MakeRow(entry, sums) ==
    [transferSize |-> entry.value.transferSize,
     mainThreadTime |-> entry.value.mainThreadTime,
     blockingTime |-> entry.value.blockingTime,
     entity |-> entry.key,
     subItems |-> makeSubItems(entry.key, sums, entry.value)]

RECURSIVE SumField(_, _)
SumField(rows, field) ==
    IF rows = <<>> THEN 0 ELSE Head(rows)[field] + SumField(Tail(rows), field)

\* Lines 121-140: the rows, and the totals accumulated while mapping.
MakeResults(sums, mainEntity) ==
    LET IsKept(entry) == IsReported(mainEntity, entry.key)
        kept == SelectSeq(sums.byEntity, IsKept)
        rows == [i \in 1..Len(kept) |-> MakeRow(kept[i], sums)]
    IN  [results |-> SortRows(rows),
         overallSummary |-> [wastedBytes |-> SumField(rows, "transferSize"),
                             wastedMs |-> SumField(rows, "blockingTime")]]

NoVerdict == [score |-> 0, notApplicable |-> FALSE, details |-> FALSE,
              timeInMs |-> 0, results |-> <<>>,
              overallSummary |-> [wastedBytes |-> 0, wastedMs |-> 0]]

\* Lines 148-161: the value audit resolves to.
MakeVerdict(r) ==
    IF Len(r.results) = 0
    THEN [NoVerdict EXCEPT !.score = 1, !.notApplicable = TRUE]
    ELSE [score |-> IF r.overallSummary.wastedMs <= PASS_THRESHOLD_IN_MS THEN 1 ELSE 0,
          notApplicable |-> FALSE,
          details |-> TRUE,
          timeInMs |-> r.overallSummary.wastedMs,
          results |-> r.results,
          overallSummary |-> r.overallSummary]

\* The whole of audit.
Audit(bound, global, networkRecords, tasks, multiplier, finalUrl) ==
    IF ~URLValid(finalUrl)
    THEN [outcome |-> "TypeError", byURL |-> global,
          summaries |-> NoSummaries, verdict |-> NoVerdict]
    ELSE LET mainEntity == URLHost(finalUrl)
             got == GetSummaries(bound, global, networkRecords, tasks, multiplier)
         IN  IF got.outcome # "return"
             THEN [outcome |-> got.outcome, byURL |-> got.byURL,
                   summaries |-> NoSummaries, verdict |-> NoVerdict]
             ELSE [outcome |-> "return", byURL |-> got.byURL,
                   summaries |-> got.summaries,
                   verdict |-> MakeVerdict(MakeResults(got.summaries, mainEntity))]

----------------------------------------------------------------------------
(* The state machine *)

RecordPool == {[url |-> AX, transferSize |-> 5000],
               [url |-> BZ, transferSize |-> 3000],
               [url |-> DT, transferSize |-> 100]}

TaskPool == {[url |-> AX, selfTime |-> 80],
             [url |-> BZ, selfTime |-> 60],
             [url |-> Unattributable, selfTime |-> 80]}

Multipliers == {1, 4}

FinalUrls == {PAGE_A, PAGE_DATA, NoUrl}

Init ==
    /\ byURLBound \in BOOLEAN
    /\ byURL = EmptyMap
    /\ processed = 0
    /\ callName = "none"
    /\ args = [networkRecords |-> <<>>, tasks |-> <<>>, multiplier |-> 1, finalUrl |-> NoUrl]
    /\ outcome = "none"
    /\ summaries = NoSummaries
    /\ verdict = NoVerdict

GetSummariesCall(networkRecords, mainThreadTasks, cpuMultiplier) ==
    \E r \in {GetSummaries(byURLBound, byURL, networkRecords, mainThreadTasks, cpuMultiplier)} :
        /\ callName' = "getSummaries"
        /\ args' = [networkRecords |-> networkRecords, tasks |-> mainThreadTasks,
                    multiplier |-> cpuMultiplier, finalUrl |-> NoUrl]
        /\ processed' = processed + Len(networkRecords) + Len(mainThreadTasks)
        /\ byURL' = r.byURL
        /\ outcome' = r.outcome
        /\ summaries' = r.summaries
        /\ verdict' = NoVerdict
        /\ UNCHANGED byURLBound

AuditCall(networkRecords, tasks, multiplier, finalUrl) ==
    \E r \in {Audit(byURLBound, byURL, networkRecords, tasks, multiplier, finalUrl)} :
        /\ callName' = "audit"
        /\ args' = [networkRecords |-> networkRecords, tasks |-> tasks,
                    multiplier |-> multiplier, finalUrl |-> finalUrl]
        /\ processed' = processed + Len(networkRecords) + Len(tasks)
        /\ byURL' = r.byURL
        /\ outcome' = r.outcome
        /\ summaries' = r.summaries
        /\ verdict' = r.verdict
        /\ UNCHANGED byURLBound

\* The inputs of one call: what is left of MaxItems, split into records and tasks.
RecordLists == UNION {[1..n -> RecordPool] : n \in 0..(MaxItems - processed)}
TaskLists(used) == UNION {[1..n -> TaskPool] : n \in 0..(MaxItems - processed - used)}

DoGetSummaries ==
    \E networkRecords \in RecordLists :
        \E tasks \in TaskLists(Len(networkRecords)) :
            \E multiplier \in Multipliers :
                GetSummariesCall(networkRecords, tasks, multiplier)

DoAudit ==
    \E networkRecords \in RecordLists :
        \E tasks \in TaskLists(Len(networkRecords)) :
            \E multiplier \in Multipliers :
                \E finalUrl \in FinalUrls :
                    AuditCall(networkRecords, tasks, multiplier, finalUrl)

Next == DoGetSummaries \/ DoAudit

Spec == Init /\ [][Next]_vars

----------------------------------------------------------------------------
(* One audit of one page whose third-party resources all come from cdn.test *)

\* What the page loads from https://cdn.test/<i>.js: its bytes, and the self
\* time of the task attributed to it (0: no task).
SmallStats == [transferSize : {0, 3000, 4200, 90000}, selfTime : {0, 60, 80}]
LargeStats == [transferSize : {100, 5000}, selfTime : {0, 60, 80}]

PageRecords(stats) ==
    <<[url |-> PAGE_A, transferSize |-> 2000]>> \o
    [i \in 1..Len(stats) |-> [url |-> Cdn(i), transferSize |-> stats[i].transferSize]]

PageTasks(stats) ==
    LET all == [i \in 1..Len(stats) |-> [url |-> Cdn(i), selfTime |-> stats[i].selfTime]]
        Ran(t) == t.selfTime > 0
    IN  SelectSeq(all, Ran)

\* The one audit of the behaviour.
AuditPage(stats) ==
    AuditCall(PageRecords(stats), PageTasks(stats), 1, PAGE_A)

AuditSmallPage ==
    /\ callName = "none"
    /\ \E n \in 0..MaxSmallURLs :
          \E stats \in [1..n -> SmallStats] :
              AuditPage(stats)

AuditLargePage ==
    /\ callName = "none"
    /\ \E n \in MAX_SUBITEMS..MaxURLs :
          \E lead \in 0..MaxLead :
              \E first \in LargeStats :
                  \E rest \in LargeStats :
                      AuditPage([i \in 1..n |-> IF i <= lead THEN first ELSE rest])

NextPage == AuditSmallPage \/ AuditLargePage

SpecPages == Init /\ [][NextPage]_vars

----------------------------------------------------------------------------
(* Quantities the properties are stated in *)

\* s[lo][field] + ... + s[hi][field]
RECURSIVE SumOver(_, _, _, _)
SumOver(s, field, lo, hi) ==
    IF lo > hi THEN 0
    ELSE IF lo = hi THEN s[lo][field]
    ELSE LET mid == (lo + hi) \div 2
         IN  SumOver(s, field, lo, mid) + SumOver(s, field, mid + 1, hi)

Total(s, field) == SumOver(s, field, 1, Len(s))

MapValues(m) == [i \in 1..Len(m) |-> m[i].value]

ScaledTasks == [i \in 1..Len(args.tasks) |->
                   [duration |-> args.tasks[i].selfTime * args.multiplier]]

Returned(name) == callName = name /\ outcome = "return"

\* The entities whose URL list holds url.
EntitiesListing(url) ==
    {i \in 1..Len(summaries.urls) :
        \E j \in 1..Len(summaries.urls[i].value) : summaries.urls[i].value[j] = url}

EntriesOf(url) == {i \in 1..Len(summaries.byURL) : summaries.byURL[i].key = url}

FirstCall == processed = Len(args.networkRecords) + Len(args.tasks)

mainEntityOfCall == URLHost(args.finalUrl)

\* The entries of byEntity that are not the page's own entity.
ThirdParties ==
    LET IsThird(entry) == entry.key # mainEntityOfCall
    IN  SelectSeq(summaries.byEntity, IsThird)

IsRemainder(item) == item.url = otherResourcesLabel

----------------------------------------------------------------------------
(* C1: whenever getSummaries returns, the transfer sizes of byEntity add up
   to the transfer sizes of the records it was given, and so do those of
   byURL; every record's URL is the key of exactly one byURL entry and is
   listed under exactly one entity. *)
C1_BytesConserved ==
    Returned("getSummaries") =>
        /\ Total(MapValues(summaries.byEntity), "transferSize")
              = Total(args.networkRecords, "transferSize")
        /\ Total(MapValues(summaries.byURL), "transferSize")
              = Total(args.networkRecords, "transferSize")
        /\ \A i \in 1..Len(args.networkRecords) :
              /\ Cardinality(EntriesOf(args.networkRecords[i].url)) = 1
              /\ Cardinality(EntitiesListing(args.networkRecords[i].url)) = 1

(* C2: with byURL bound to an empty Map, the first call of getSummaries
   returns whatever URL its tasks are attributed to (the 'Unattributable'
   marker included), and the main-thread times of byURL and of byEntity both
   add up to the scaled self times of the tasks. *)
C2_TasksCounted ==
    (byURLBound /\ callName = "getSummaries" /\ FirstCall) =>
        /\ outcome = "return"
        /\ Total(MapValues(summaries.byURL), "mainThreadTime") = Total(ScaledTasks, "duration")
        /\ Total(MapValues(summaries.byEntity), "mainThreadTime") = Total(ScaledTasks, "duration")
        /\ \A i \in 1..Len(args.tasks) :
              /\ Cardinality(EntriesOf(args.tasks[i].url)) = 1
              /\ Cardinality(EntitiesListing(args.tasks[i].url)) = 1

(* C3: the summaries of a call of getSummaries or of audit that returns
   depend on the arguments of that call only: they are what the call computes
   when it starts from an empty per-URL map, and every key of their byURL is
   a URL of one of the call's records or tasks. *)
C3_NothingPersists ==
    (Returned("getSummaries") \/ Returned("audit")) =>
        /\ summaries = GetSummaries(TRUE, EmptyMap, args.networkRecords,
                                    args.tasks, args.multiplier).summaries
        /\ MapKeys(summaries.byURL) \subseteq
              {args.networkRecords[i].url : i \in 1..Len(args.networkRecords)}
              \cup {args.tasks[i].url : i \in 1..Len(args.tasks)}

\* What C4 says of the rows and the totals of a returned audit.
FirstPartyLeftOut ==
    /\ \A i \in 1..Len(verdict.results) : verdict.results[i].entity # mainEntityOfCall
    /\ verdict.overallSummary.wastedBytes = Total(MapValues(ThirdParties), "transferSize")
    /\ verdict.overallSummary.wastedMs = Total(MapValues(ThirdParties), "blockingTime")

(* C4, as claimed: whatever the final URL, its host is the entity of no row
   of a returned audit, and the overall wastedBytes and wastedMs are the
   totals of the other entities. *)
C4_AnyFinalUrl ==
    (Returned("audit") /\ verdict.details) => FirstPartyLeftOut

(* C4, amended: when the host of the final URL is not the empty string, it
   is the entity of no row of a returned audit, and the overall wastedBytes
   and wastedMs are the totals of the other entities. *)
C4_FirstPartyExcluded ==
    (Returned("audit") /\ verdict.details /\ mainEntityOfCall # "") => FirstPartyLeftOut

\* The page's own entity has bytes and blocking time, and there are rows.
C4_Witness ==
    /\ Returned("audit") /\ verdict.details /\ mainEntityOfCall # ""
    /\ MapHas(summaries.byEntity, mainEntityOfCall)
    /\ MapGet(summaries.byEntity, mainEntityOfCall).transferSize > 0
    /\ MapGet(summaries.byEntity, mainEntityOfCall).blockingTime > 0
    /\ Len(verdict.results) > 0

\* What C5 says of a returned audit: notApplicable exactly when there is no
\* row; otherwise the score is 1 exactly when wastedMs, the rows' blocking
\* time, is at most 250.
VerdictOfRows ==
    /\ verdict.notApplicable <=> (Len(verdict.results) = 0)
    /\ verdict.notApplicable => verdict.score = 1
    /\ ~verdict.notApplicable =>
          /\ verdict.overallSummary.wastedMs = Total(verdict.results, "blockingTime")
          /\ verdict.score = 1 <=> verdict.overallSummary.wastedMs <= 250
          /\ verdict.score \in {0, 1}

(* C5: the verdict of a returned audit follows from its rows, and an audit
   given no records and no tasks (and a final URL that parses) returns the
   notApplicable verdict. *)
C5_Verdict ==
    /\ Returned("audit") => VerdictOfRows
    /\ (callName = "audit" /\ args.networkRecords = <<>> /\ args.tasks = <<>>
            /\ URLValid(args.finalUrl))
          => (outcome = "return" /\ verdict.notApplicable)

\* The part of C5 that the code does satisfy.
C5_VerdictWhenReturned == Returned("audit") => VerdictOfRows

\* The rows are in order: blocking time descending, then bytes descending.
RowsOrdered ==
    \A i \in 1..(Len(verdict.results) - 1) :
        LET r1 == verdict.results[i]
            r2 == verdict.results[i + 1]
        IN  \/ r1.blockingTime > r2.blockingTime
            \/ r1.blockingTime = r2.blockingTime /\ r1.transferSize >= r2.transferSize

\* One row for each entry of entries, and no other row.
RowsAreOnePer(entries) ==
    /\ Len(verdict.results) = Len(entries)
    /\ \A i \in 1..Len(entries) :
          Cardinality({j \in 1..Len(verdict.results) :
                          /\ verdict.results[j].entity = entries[i].key
                          /\ verdict.results[j].transferSize = entries[i].value.transferSize
                          /\ verdict.results[j].blockingTime = entries[i].value.blockingTime}) = 1

(* C9, as claimed: the rows of a returned audit are ordered by blocking time
   descending, then bytes descending, and are one per entity of byEntity
   other than the host of the final URL. *)
C9_AnyFinalUrl ==
    (Returned("audit") /\ verdict.details) =>
        RowsOrdered /\ RowsAreOnePer(ThirdParties)

(* C9, amended: the rows of a returned audit are ordered by blocking time
   descending, then bytes descending; they are one per entity of byEntity
   other than the host of the final URL when that host is not the empty
   string, and one per entity of byEntity when it is. *)
C9_RowsOrdered ==
    (Returned("audit") /\ verdict.details) =>
        /\ RowsOrdered
        /\ mainEntityOfCall # "" => RowsAreOnePer(ThirdParties)
        /\ mainEntityOfCall = "" => RowsAreOnePer(summaries.byEntity)

\* Two rows that tie on blocking time, in the other order than byEntity
\* holds their entities, the page's own entity left out.
C9_Witness ==
    /\ Returned("audit") /\ mainEntityOfCall # ""
    /\ MapHas(summaries.byEntity, mainEntityOfCall)
    /\ Len(verdict.results) >= 2
    /\ verdict.results[1].blockingTime = verdict.results[2].blockingTime
    /\ verdict.results[1].transferSize > verdict.results[2].transferSize
    /\ MapIndex(summaries.byEntity, verdict.results[1].entity)
          > MapIndex(summaries.byEntity, verdict.results[2].entity)

----------------------------------------------------------------------------
(* The sub-items of the rows *)

Rows == 1..Len(verdict.results)

ShownItems(row) ==
    LET IsUrl(item) == ~IsRemainder(item)
    IN  SelectSeq(row.subItems, IsUrl)

HasRemainder(row) == \E i \in 1..Len(row.subItems) : IsRemainder(row.subItems[i])

RemainderOf(row) == row.subItems[Len(row.subItems)]

\* minTransferSize of the row's entity, times 20.
Floor20(row) == IF row.transferSize > 20 * 4096 THEN row.transferSize ELSE 20 * 4096

\* The URLs of the row's entity that have bytes, with their byURL summaries.
UrlsWithBytes(row) ==
    {e \in {summaries.byURL[i] : i \in 1..Len(summaries.byURL)} :
        URLHost(e.key) = row.entity /\ e.value.transferSize > 0}

ShownUrls(row) == {ShownItems(row)[i].url : i \in 1..Len(ShownItems(row))}

LeftOut(row) == {e \in UrlsWithBytes(row) : e.key \notin ShownUrls(row)}

(* C6: in every row of a returned audit, the sub-items (the remainder
   included) have bytes adding up to at most the entity's bytes and blocking
   time adding up to at most the entity's blocking time, and no sub-item, the
   remainder included, has negative bytes or negative blocking time. *)
C6_SubItemsWithinTotals ==
    Returned("audit") =>
        \A r \in Rows :
            LET row == verdict.results[r]
            IN  /\ Total(row.subItems, "transferSize") <= row.transferSize
                /\ Total(row.subItems, "blockingTime") <= row.blockingTime
                /\ \A i \in 1..Len(row.subItems) :
                      /\ row.subItems[i].transferSize >= 0
                      /\ row.subItems[i].blockingTime >= 0

\* A row with URL items and a remainder that carries blocking time.
C6_Witness ==
    /\ Returned("audit")
    /\ \E r \in Rows :
          LET row == verdict.results[r]
          IN  /\ HasRemainder(row)
              /\ Len(row.subItems) > 1
              /\ RemainderOf(row).blockingTime > 0

(* C7: in every row of a returned audit whose sub-items hold the remainder,
   the remainder is the last sub-item and the only one, its bytes plus the
   bytes of the other sub-items are the entity's bytes, likewise for blocking
   time, and its bytes are strictly more than max(4096, entity bytes / 20). *)
C7_RemainderConsistent ==
    Returned("audit") =>
        \A r \in Rows :
            LET row == verdict.results[r]
            IN  HasRemainder(row) =>
                    /\ Len(ShownItems(row)) = Len(row.subItems) - 1
                    /\ IsRemainder(RemainderOf(row))
                    /\ RemainderOf(row).transferSize + Total(ShownItems(row), "transferSize")
                          = row.transferSize
                    /\ RemainderOf(row).blockingTime + Total(ShownItems(row), "blockingTime")
                          = row.blockingTime
                    /\ 20 * RemainderOf(row).transferSize > Floor20(row)

\* A row with a remainder, where the floor is the entity's twentieth.
C7_Witness ==
    /\ Returned("audit")
    /\ \E r \in Rows :
          LET row == verdict.results[r]
          IN  /\ HasRemainder(row)
              /\ row.transferSize > 20 * 4096

(* C8: in every row of a returned audit there are at most 101 sub-items: at
   most 100 URL items and at most one remainder. *)
C8_AtMost101 ==
    Returned("audit") =>
        \A r \in Rows :
            LET row == verdict.results[r]
            IN  /\ Len(row.subItems) <= 101
                /\ Len(ShownItems(row)) <= 100
                /\ Len(row.subItems) - Len(ShownItems(row)) <= 1

\* An entity with more than 100 URLs whose row has 101 sub-items.
C8_Witness ==
    /\ Returned("audit")
    /\ \E r \in Rows :
          LET row == verdict.results[r]
          IN  /\ Len(row.subItems) = 101
              /\ Cardinality(UrlsWithBytes(row)) > 100

(* C10: in every row of a returned audit, every URL item has blocking time
   or at least minTransferSize bytes, the URL items are in order (blocking
   time descending, bytes descending among equal blocking times), and, when
   there are fewer than 100 of them, every URL of the entity that has bytes
   and is not among them has no blocking time and fewer than minTransferSize
   bytes. *)
C10_EarlyStopLosesNothing ==
    Returned("audit") =>
        \A r \in Rows :
            LET row == verdict.results[r]
                shown == ShownItems(row)
            IN  /\ \A i \in 1..Len(shown) :
                      /\ \/ shown[i].blockingTime > 0
                         \/ 20 * shown[i].transferSize >= Floor20(row)
                      /\ \E e \in UrlsWithBytes(row) :
                            /\ e.key = shown[i].url
                            /\ e.value.transferSize = shown[i].transferSize
                            /\ e.value.blockingTime = shown[i].blockingTime
                /\ \A i \in 1..(Len(shown) - 1) :
                      \/ shown[i].blockingTime > shown[i + 1].blockingTime
                      \/ /\ shown[i].blockingTime = shown[i + 1].blockingTime
                         /\ shown[i].transferSize >= shown[i + 1].transferSize
                /\ Len(shown) < 100 =>
                      \A e \in LeftOut(row) :
                          /\ e.value.blockingTime = 0
                          /\ 20 * e.value.transferSize < Floor20(row)

\* The walk stopped early: two URL items that the sort had to swap, and a
\* URL with bytes left out.
C10_Witness ==
    /\ Returned("audit")
    /\ \E r \in Rows :
          LET row == verdict.results[r]
              shown == ShownItems(row)
          IN  /\ Len(shown) = 2
              /\ shown[1].url.path > shown[2].url.path
              /\ LeftOut(row) # {}

====
